---- MODULE Spec2Model ----
(***************************************************************************)
(* A model of ghx_grid: the Cartesian grid's index arithmetic and          *)
(* neighbour resolution, the GridData buffer and its 2D flood fill.        *)
(***************************************************************************)
EXTENDS Integers, Sequences, FiniteSets, TLC

\* ------------------------------------------------------------------ bounds
\* Largest grid sizes of the index / neighbour specification (SpecGrid).
MaxSizeX == 3
MaxSizeY == 3
MaxSizeZ == 2
\* Largest per-axis magnitude of a free GridDelta given to get_next_pos.
MaxDelta == 1
\* Largest per-axis magnitude of the deltas of the wrap specification
\* (SpecWrap): up to the largest axis size, and past the smaller ones.
FarDelta == 3
\* Largest magnitude of `units` given to get_index_in_direction.
MaxUnits == 2
\* Entries a neighbours buffer may have beyond the number of directions.
MaxSpare == 1
\* The largest value of the model's u32: it stands for u32::MAX, so that sums
\* and products of coordinates overflow within reach of the model.
U32Max == 15
\* Largest grid sizes of the specification of calls with unchecked arguments
\* (SpecRaw).
RawMaxX == 2
RawMaxY == 2
RawMaxZ == 2
\* How far past the last coordinate of an axis the positions given to the
\* GridData accessors reach (SpecAccess).
AccessReach == 1
\* Largest grid sizes of the specification of a grid's whole life (SpecLife).
LifeMaxX == 2
LifeMaxY == 2
LifeMaxZ == 1
\* Largest 2D grid sizes of the flood fill specifications.
FillMaxX == 3
FillMaxY == 2
\* Stale positions a caller's pre-allocated queue may hold on entry.
MaxStale == 1
\* Positions, any of the grid, that the queue passed to a whole flood_fill
\* call may hold on entry (SpecQueue).
MaxQueued == 1
\* Largest grid sizes of the GridData specification (SpecData).
DataMaxX == 2
DataMaxY == 2
DataMaxZ == 2
\* Queue length past which a run whose action does not disable condition
\* (and which therefore grows its queue for ever) is no longer followed.
QueueCap == 5
\* The counters `applied` and `pushed` stop counting at CountCap.
CountCap == 2

VARIABLES
    grid,       \* the CartesianGrid / GridDefinition (immutable fields)
    data,       \* GridData.data: the flat buffer, element i at data[i + 1]
    op,         \* name of the last grid function called (SpecGrid)
    arg,        \* its arguments
    ret,        \* its result
    pc,         \* control state of the GridData owner / of flood_fill
    queue,      \* the VecDeque used by flood_fill
    prealloc,   \* TRUE when the caller passes pre_allocated_queue = Some(queue)
    disables,   \* TRUE when action makes condition false on the cell it is applied to
    from,       \* flood_fill's start position
    data0,      \* the buffer at flood_fill's entry
    applied,    \* per index: how many times action was applied in this call
    pushed,     \* per index: how many times the position was pushed on the queue
    ctor,       \* the constructor that built the GridData
    len0,       \* the buffer's length right after construction
    local       \* flood_fill's local variables

vars == <<grid, data, op, arg, ret, pc, queue, prealloc, disables, from,
          data0, applied, pushed, ctor, len0, local>>

\* ------------------------------------------------------------- directions
XForward == 0
YForward == 1
XBackward == 2
YBackward == 3
ZForward == 4
ZBackward == 5

Direction == {XForward, YForward, XBackward, YBackward, ZForward, ZBackward}

GridDelta(dx, dy, dz) == [dx |-> dx, dy |-> dy, dz |-> dz]

CARTESIAN_2D_DIRECTIONS_by_axis == <<XForward, XBackward, YForward, YBackward>>

CARTESIAN_2D_DIRECTIONS == <<XForward, YForward, XBackward, YBackward>>

CARTESIAN_2D_DELTAS ==
    <<GridDelta(1, 0, 0), GridDelta(0, 1, 0), GridDelta(-1, 0, 0), GridDelta(0, -1, 0)>>

CARTESIAN_3D_DIRECTIONS ==
    <<XForward, YForward, XBackward, YBackward, ZForward, ZBackward>>

CARTESIAN_3D_DELTAS_both_z_up ==
    <<GridDelta(1, 0, 0), GridDelta(0, 1, 0), GridDelta(-1, 0, 0), GridDelta(0, -1, 0),
      GridDelta(0, 0, 1), GridDelta(0, 0, 1)>>

CARTESIAN_3D_DELTAS ==
    <<GridDelta(1, 0, 0), GridDelta(0, 1, 0), GridDelta(-1, 0, 0), GridDelta(0, -1, 0),
      GridDelta(0, 0, 1), GridDelta(0, 0, -1)>>

directions(cs) ==
    IF cs = "Cartesian2D" THEN CARTESIAN_2D_DIRECTIONS ELSE CARTESIAN_3D_DIRECTIONS

deltas(cs) ==
    IF cs = "Cartesian2D" THEN CARTESIAN_2D_DELTAS ELSE CARTESIAN_3D_DELTAS

\* ------------------------------------------------------------ option values
None == [tag |-> "None"]
Some(v) == [tag |-> "Some", val |-> v]
Panic == [tag |-> "Panic"]

\* ------------------------------------------------------------------- grids
CartesianPosition(x, y, z) == [x |-> x, y |-> y, z |-> z]

\* CartesianGrid::new / GridDefinition::new: the fields, and the size_xy cache.
NewGrid_row_cache(kind, cs, size_x, size_y, size_z, looping_x, looping_y, looping_z) ==
    [kind |-> kind, coord_system |-> cs,
     size_x |-> size_x, size_y |-> size_y, size_z |-> size_z,
     looping_x |-> looping_x, looping_y |-> looping_y, looping_z |-> looping_z,
     size_xy |-> size_x]

NewGrid(kind, cs, size_x, size_y, size_z, looping_x, looping_y, looping_z) ==
    [kind |-> kind, coord_system |-> cs,
     size_x |-> size_x, size_y |-> size_y, size_z |-> size_z,
     looping_x |-> looping_x, looping_y |-> looping_y, looping_z |-> looping_z,
     size_xy |-> size_x * size_y]

new_cartesian_2d(kind, size_x, size_y, looping_x, looping_y) ==
    NewGrid(kind, "Cartesian2D", size_x, size_y, 1, looping_x, looping_y, FALSE)

new_cartesian_3d(kind, size_x, size_y, size_z, looping_x, looping_y, looping_z) ==
    NewGrid(kind, "Cartesian3D", size_x, size_y, size_z, looping_x, looping_y, looping_z)

\* Grid::total_size: CartesianGrid multiplies the cached size_xy by size_z,
\* GridDefinition multiplies size_x by size_y only.
total_size(g) ==
    IF g.kind = "CartesianGrid" THEN g.size_xy * g.size_z ELSE g.size_x * g.size_y

index_from_coords_ysize(g, x, y, z) == x + y * g.size_y + z * g.size_xy

index_from_coords(g, x, y, z) == x + y * g.size_x + z * g.size_xy

index_from_pos(g, pos) == index_from_coords(g, pos.x, pos.y, pos.z)

get_index_2d(g, x, y) == x + y * g.size_x

pos_from_index_noymod(g, index) ==
    CartesianPosition(index % g.size_x, index \div g.size_x, index \div g.size_xy)

pos_from_index(g, index) ==
    CartesianPosition(index % g.size_x, (index \div g.size_x) % g.size_y, index \div g.size_xy)

get_delta_position(pos, delta) == <<pos.x + delta.dx, pos.y + delta.dy, pos.z + delta.dz>>

\* One turn of get_next_pos's loop over the axes: the resolved coordinate, or
\* ok = FALSE where the code returns None.
ResolveAxis_nocheck(looping, p, size) ==
    LET p1 == IF p < 0 THEN p + size ELSE p
        p2 == IF p1 >= size THEN p1 - size ELSE p1
    IN  [ok |-> TRUE, v |-> p2]

ResolveAxis_upper_only(looping, p, size) ==
    LET p2 == IF p >= size THEN p - size ELSE p
    IN  IF looping THEN [ok |-> TRUE, v |-> p2]
        ELSE IF p < 0 \/ p >= size THEN [ok |-> FALSE, v |-> p]
        ELSE [ok |-> TRUE, v |-> p]

ResolveAxis(looping, p, size) ==
    LET p1 == IF p < 0 THEN p + size ELSE p
        p2 == IF p1 >= size THEN p1 - size ELSE p1
    IN  IF looping THEN [ok |-> TRUE, v |-> p2]
        ELSE IF p < 0 \/ p >= size THEN [ok |-> FALSE, v |-> p]
        ELSE [ok |-> TRUE, v |-> p]

\* get_next_pos: None at the first non-looping axis left; the final
\* u32::try_from(..).unwrap() panics on a coordinate that is still negative.
get_next_pos_x_only(g, pos, delta) ==
    LET next_pos == get_delta_position(pos, delta)
        rx == ResolveAxis(g.looping_x, next_pos[1], g.size_x)
        ry == ResolveAxis(TRUE, next_pos[2], g.size_y)
        rz == ResolveAxis(TRUE, next_pos[3], g.size_z)
    IN  IF ~rx.ok THEN None
        ELSE IF rx.v < 0 \/ ry.v < 0 \/ rz.v < 0 THEN Panic
        ELSE Some(CartesianPosition(rx.v, ry.v, rz.v))

get_next_pos(g, pos, delta) ==
    LET next_pos == get_delta_position(pos, delta)
        rx == ResolveAxis(g.looping_x, next_pos[1], g.size_x)
        ry == ResolveAxis(g.looping_y, next_pos[2], g.size_y)
        rz == ResolveAxis(g.looping_z, next_pos[3], g.size_z)
    IN  IF ~rx.ok \/ ~ry.ok \/ ~rz.ok THEN None
        ELSE IF rx.v < 0 \/ ry.v < 0 \/ rz.v < 0 THEN Panic
        ELSE Some(CartesianPosition(rx.v, ry.v, rz.v))

\* deltas()[direction as usize]: a slice index, which panics past the table.
get_next_pos_in_direction(g, pos, direction) ==
    IF direction >= Len(deltas(g.coord_system)) THEN Panic
    ELSE get_next_pos(g, pos, deltas(g.coord_system)[direction + 1])

get_next_index_in_direction(g, pos, direction) ==
    LET r == get_next_pos_in_direction(g, pos, direction)
    IN  IF r.tag = "Some" THEN Some(index_from_pos(g, r.val)) ELSE r

\* impl Mul<i32> for GridDelta
Mul(delta, rhs) == GridDelta(delta.dx * rhs, delta.dy * rhs, delta.dz * rhs)

get_index_in_direction(g, pos, direction, units) ==
    IF direction >= Len(deltas(g.coord_system)) THEN Panic
    ELSE LET r == get_next_pos(g, pos, Mul(deltas(g.coord_system)[direction + 1], units))
         IN  IF r.tag = "Some" THEN Some(index_from_pos(g, r.val)) ELSE r

\* usize::from(direction): the index of a direction in the neighbours buffer.
usize_from(direction) == direction

\* The loop of get_neighbours_in_all_directions over dirs; an index past the
\* end of the buffer panics.
RECURSIVE WriteNeighbours(_, _, _, _)
WriteNeighbours(g, pos, dirs, neighbours_buffer) ==
    IF dirs = <<>> THEN Some(neighbours_buffer)
    ELSE LET dir == Head(dirs)
             r == get_next_index_in_direction(g, pos, dir)
         IN  IF usize_from(dir) >= Len(neighbours_buffer) \/ r.tag = "Panic" THEN Panic
             ELSE WriteNeighbours(g, pos, Tail(dirs),
                                  [neighbours_buffer EXCEPT ![usize_from(dir) + 1] = r])

\* The buffer after the call, or the panic.
get_neighbours_in_all_directions_2d(g, grid_index, neighbours_buffer) ==
    WriteNeighbours(g, pos_from_index(g, grid_index), CARTESIAN_2D_DIRECTIONS,
                    neighbours_buffer)

get_neighbours_in_all_directions(g, grid_index, neighbours_buffer) ==
    WriteNeighbours(g, pos_from_index(g, grid_index), directions(g.coord_system),
                    neighbours_buffer)

\* ---------------------------------------------------- inputs of the model
Positions(g) ==
    { CartesianPosition(x, y, z) :
        x \in 0 .. g.size_x - 1, y \in 0 .. g.size_y - 1, z \in 0 .. g.size_z - 1 }

GridKinds == {"CartesianGrid", "GridDefinition"}

Grids2D(kind, mx, my) ==
    { new_cartesian_2d(kind, sx, sy, lx, ly) :
        sx \in 1 .. mx, sy \in 1 .. my, lx \in BOOLEAN, ly \in BOOLEAN }

Grids3D(kind, mx, my, mz) ==
    UNION { { new_cartesian_3d(kind, sx, sy, sz, lx, ly, lz) :
                sx \in 1 .. mx, sy \in 1 .. my, sz \in 1 .. mz }
            : lx \in BOOLEAN, ly \in BOOLEAN, lz \in BOOLEAN }

Grids ==
    UNION { Grids2D(k, MaxSizeX, MaxSizeY) \cup Grids3D(k, MaxSizeX, MaxSizeY, MaxSizeZ)
            : k \in GridKinds }

Deltas ==
    { GridDelta(dx, dy, dz) :
        dx \in -MaxDelta .. MaxDelta, dy \in -MaxDelta .. MaxDelta,
        dz \in -MaxDelta .. MaxDelta }

\* The locals of a running flood_fill: the dequeued pos, the run's direction
\* (an index in HORIZONTAL_DIRS), x_pos and turn count, and explore_vertical's
\* `from`, direction (an index in VERTICAL_DIRS) and caller.
Locals(pos, hdir, x_pos, iter, vfrom, vdir, vret) ==
    [pos |-> pos, hdir |-> hdir, x_pos |-> x_pos, iter |-> iter,
     vfrom |-> vfrom, vdir |-> vdir, vret |-> vret]

NoLocals ==
    Locals(CartesianPosition(0, 0, 0), 0, CartesianPosition(0, 0, 0), 0,
           CartesianPosition(0, 0, 0), 0, "none")

\* ------------------------------------------- SpecGrid: the grid functions
NoCall == [name |-> "none"]

InitGrid ==
    /\ grid \in Grids
    /\ data = <<>>
    /\ op = "none"
    /\ arg = NoCall
    /\ ret = None
    /\ pc = "idle"
    /\ queue = <<>>
    /\ prealloc = FALSE
    /\ disables = TRUE
    /\ from = CartesianPosition(0, 0, 0)
    /\ data0 = <<>>
    /\ applied = <<>>
    /\ pushed = <<>>
    /\ ctor = "none"
    /\ len0 = 0
    /\ local = NoLocals

\* A call is made by a caller that holds no result (Idle); CallReturn drops the result.
Idle == op = "none"

GridFrame ==
    UNCHANGED <<grid, data, pc, queue, prealloc, disables, from, data0, applied,
                pushed, ctor, len0, local>>

CallReturn ==
    /\ op # "none"
    /\ op' = "none"
    /\ arg' = NoCall
    /\ ret' = None
    /\ UNCHANGED <<grid, data, pc, queue, prealloc, disables, from, data0, applied,
                   pushed, ctor, len0, local>>

CallTotalSize ==
    /\ Idle
    /\ op' = "total_size"
    /\ arg' = NoCall
    /\ ret' = total_size(grid)
    /\ GridFrame

CallIndexFromCoords ==
    /\ Idle
    /\ \E pos \in Positions(grid) :
        /\ op' = "index_from_coords"
        /\ arg' = pos
        /\ ret' = index_from_coords(grid, pos.x, pos.y, pos.z)
        /\ GridFrame

CallPosFromIndex ==
    /\ Idle
    /\ \E index \in 0 .. grid.size_x * grid.size_y * grid.size_z - 1 :
        /\ op' = "pos_from_index"
        /\ arg' = index
        /\ ret' = pos_from_index(grid, index)
        /\ GridFrame

CallGetNextPos ==
    /\ Idle
    /\ \E pos \in Positions(grid), delta \in Deltas :
        /\ op' = "get_next_pos"
        /\ arg' = [pos |-> pos, delta |-> delta]
        /\ ret' = get_next_pos(grid, pos, delta)
        /\ GridFrame

CallGetNextPosInDirection ==
    /\ Idle
    /\ \E pos \in Positions(grid), d \in Direction :
        /\ grid.kind = "CartesianGrid"
        /\ op' = "get_next_pos_in_direction"
        /\ arg' = [pos |-> pos, direction |-> d]
        /\ ret' = get_next_pos_in_direction(grid, pos, d)
        /\ GridFrame

CallGetNextIndexInDirection ==
    /\ Idle
    /\ \E pos \in Positions(grid), d \in Direction :
        /\ op' = "get_next_index_in_direction"
        /\ arg' = [pos |-> pos, direction |-> d]
        /\ ret' = get_next_index_in_direction(grid, pos, d)
        /\ GridFrame

CallGetIndexInDirection ==
    /\ Idle
    /\ \E pos \in Positions(grid), d \in Direction, units \in -MaxUnits .. MaxUnits :
        /\ op' = "get_index_in_direction"
        /\ arg' = [pos |-> pos, direction |-> d, units |-> units]
        /\ ret' = get_index_in_direction(grid, pos, d, units)
        /\ GridFrame

\* The Vec<Option<GridIndex>> a caller passes: one entry short of the number
\* of directions, exactly that many, or up to MaxSpare more, holding whatever
\* an earlier use left in it.
NeighbourBuffers(g) ==
    { [i \in 1 .. k |-> stale] :
        k \in Len(directions(g.coord_system)) - 1 .. Len(directions(g.coord_system)) + MaxSpare,
        stale \in {None, Some(0)} }

CallGetNeighboursInAllDirections ==
    /\ Idle
    /\ grid.kind = "CartesianGrid"
    /\ \E index \in 0 .. total_size(grid) - 1, buffer \in NeighbourBuffers(grid) :
        /\ op' = "get_neighbours_in_all_directions"
        /\ arg' = [index |-> index, buffer |-> buffer]
        /\ ret' = get_neighbours_in_all_directions(grid, index, buffer)
        /\ GridFrame

NextGrid ==
    \/ CallTotalSize
    \/ CallIndexFromCoords
    \/ CallPosFromIndex
    \/ CallGetNextPos
    \/ CallGetNextPosInDirection
    \/ CallGetNextIndexInDirection
    \/ CallGetIndexInDirection
    \/ CallGetNeighboursInAllDirections
    \/ CallReturn

SpecGrid == InitGrid /\ [][NextGrid]_vars

\* ------------------------------------------------- GridData and flood_fill
\* The element type D is modelled by {0, 1}; the caller's closures are
\* condition = "is 1" and action = "set to 0", or an action that leaves the
\* element alone when `disables` is FALSE.
Elements == {0, 1}

condition(d) == d = 1

action(d) == IF disables THEN 0 ELSE d

Buffers(n) == [1 .. n -> Elements]

Zeros(n) == [i \in 1 .. n |-> 0]

CountUp(c) == IF c < CountCap THEN c + 1 ELSE c

\* VecDeque::clear, pop_front (the rest of the queue) and push_back.
VecDequeClear_keep(q) == q

VecDequeClear(q) == <<>>

PopFrontRest_keep(q) == q

PopFrontRest(q) == Tail(q)

\* The state that explore_vertical and the horizontal runs work on: the buffer,
\* the queue, the two counters, and whether an access panicked.
FillState(d, q, a, p) == [data |-> d, queue |-> q, applied |-> a, pushed |-> p, panic |-> FALSE]

Panicked(st) == [st EXCEPT !.panic = TRUE]

\* action(node_data) on the element at index i.
ApplyAction(st, i) ==
    [st EXCEPT !.data[i + 1] = action(@), !.applied[i + 1] = CountUp(@)]

\* queue.push_back(pos)
PushBack_drop(st, pos, i) == st

PushBack(st, pos, i) ==
    [st EXCEPT !.queue = Append(@, pos), !.pushed[i + 1] = CountUp(@)]

\* One turn of explore_vertical's loop over [YForward, YBackward].
VisitVertical_nocondition(g, st, pos, vertical_dir) ==
    IF st.panic THEN st
    ELSE LET r == get_next_pos_in_direction(g, pos, vertical_dir)
         IN  IF r.tag = "Panic" THEN Panicked(st)
             ELSE IF r.tag = "None" THEN st
             ELSE LET i == index_from_pos(g, r.val)
                  IN  IF i >= Len(st.data) THEN Panicked(st)
                      ELSE PushBack(ApplyAction(st, i), r.val, i)

VisitVertical(g, st, pos, vertical_dir) ==
    IF st.panic THEN st
    ELSE LET r == get_next_pos_in_direction(g, pos, vertical_dir)
         IN  IF r.tag = "Panic" THEN Panicked(st)
             ELSE IF r.tag = "None" THEN st
             ELSE LET i == index_from_pos(g, r.val)
                  IN  IF i >= Len(st.data) THEN Panicked(st)
                      ELSE IF condition(st.data[i + 1])
                           THEN PushBack(ApplyAction(st, i), r.val, i)
                           ELSE st

\* The directions explore_vertical and the horizontal runs go through, in order.
VERTICAL_DIRS_forward_only == <<YForward, YForward>>

VERTICAL_DIRS == <<YForward, YBackward>>

HORIZONTAL_DIRS == <<XBackward, XForward>>

\* One turn of a horizontal run's `for _ in 0..size_x` loop from x_pos: the
\* next cell is filled (moved, and explore_vertical is called on it) or the
\* run breaks.
WalkStep(g, st, x_pos, horizontal_dir) ==
    LET r == get_next_pos_in_direction(g, x_pos, horizontal_dir)
        stay == [st |-> st, moved |-> FALSE, next |-> x_pos]
    IN  IF r.tag = "Panic" THEN [stay EXCEPT !.st = Panicked(st)]
        ELSE IF r.tag = "None" THEN stay
        ELSE LET i == index_from_pos(g, r.val)
             IN  IF i >= Len(st.data) THEN [stay EXCEPT !.st = Panicked(st)]
                 ELSE IF condition(st.data[i + 1])
                      THEN [st |-> ApplyAction(st, i), moved |-> TRUE, next |-> r.val]
                      ELSE stay

Running == pc \in {"while", "vertical", "for"}

\* flood_fill up to the while loop: the queue is cleared (or created), the
\* start cell is tested, and either the call returns or the start is filled
\* and pushed.
FloodFillStart ==
    /\ pc = "idle"
    /\ grid.kind = "CartesianGrid" /\ grid.coord_system = "Cartesian2D"
    /\ \E initial_pos \in Positions(grid) :
          LET q == IF prealloc THEN VecDequeClear(queue) ELSE <<>>
              i == index_from_pos(grid, initial_pos)
              n == total_size(grid)
          IN  /\ from' = initial_pos
              /\ data0' = data
              /\ IF i >= Len(data)
                 THEN /\ pc' = "panic"
                      /\ queue' = q
                      /\ applied' = Zeros(n)
                      /\ pushed' = Zeros(n)
                      /\ data' = data
                 ELSE IF ~condition(data[i + 1])
                 THEN /\ pc' = "done"
                      /\ queue' = q
                      /\ applied' = Zeros(n)
                      /\ pushed' = Zeros(n)
                      /\ data' = data
                 ELSE /\ pc' = "while"
                      /\ queue' = Append(q, initial_pos)
                      /\ applied' = [Zeros(n) EXCEPT ![i + 1] = 1]
                      /\ pushed' = [Zeros(n) EXCEPT ![i + 1] = 1]
                      /\ data' = [data EXCEPT ![i + 1] = action(@)]
    /\ local' = NoLocals
    /\ UNCHANGED <<grid, op, arg, ret, prealloc, disables, ctor, len0>>

\* `while let Some(pos) = queue.pop_front()`: a position is dequeued and
\* explore_vertical is called on it. A run whose action does not disable
\* condition is followed only while its queue is within QueueCap.
WhilePop ==
    /\ pc = "while"
    /\ queue # <<>>
    /\ disables \/ Len(queue) <= QueueCap
    /\ pc' = "vertical"
    /\ queue' = PopFrontRest(queue)
    /\ local' = Locals(Head(queue), 0, Head(queue), 0, Head(queue), 0, "body")
    /\ UNCHANGED <<grid, data, op, arg, ret, prealloc, disables, from, data0,
                   applied, pushed, ctor, len0>>

\* queue.pop_front() returns None: the loop and the call end.
FloodFillReturn ==
    /\ pc = "while"
    /\ queue = <<>>
    /\ pc' = "done"
    /\ UNCHANGED <<grid, data, op, arg, ret, queue, prealloc, disables, from, data0,
                   applied, pushed, ctor, len0, local>>

\* One turn of explore_vertical's loop; after the second, explore_vertical
\* returns to the while body (the X- run starts from pos) or to the run that
\* called it (x_pos = next_node_pos, and the run's next turn).
ExploreVerticalStep ==
    /\ pc = "vertical"
    /\ LET st == VisitVertical(grid, FillState(data, queue, applied, pushed),
                               local.vfrom, VERTICAL_DIRS[local.vdir + 1])
       IN  /\ data' = st.data
           /\ queue' = st.queue
           /\ applied' = st.applied
           /\ pushed' = st.pushed
           /\ pc' = IF st.panic THEN "panic"
                    ELSE IF local.vdir + 1 < Len(VERTICAL_DIRS) THEN "vertical"
                    ELSE "for"
    /\ local' = IF local.vdir + 1 < Len(VERTICAL_DIRS)
                THEN [local EXCEPT !.vdir = @ + 1]
                ELSE IF local.vret = "body"
                THEN [local EXCEPT !.hdir = 0, !.x_pos = local.pos, !.iter = 0]
                ELSE [local EXCEPT !.x_pos = local.vfrom, !.iter = @ + 1]
    /\ UNCHANGED <<grid, op, arg, ret, prealloc, disables, from, data0, ctor, len0>>

ForStep_uncapped ==
    /\ pc = "for"
    /\ LET w == WalkStep(grid, FillState(data, queue, applied, pushed),
                         local.x_pos, HORIZONTAL_DIRS[local.hdir + 1])
       IN  /\ data' = w.st.data
           /\ applied' = w.st.applied
           /\ pc' = IF w.st.panic THEN "panic"
                    ELSE IF w.moved THEN "vertical"
                    ELSE IF local.hdir + 1 < Len(HORIZONTAL_DIRS) THEN "for"
                    ELSE "while"
           /\ local' = IF w.moved
                       THEN [local EXCEPT !.vfrom = w.next, !.vdir = 0, !.vret = "run"]
                       ELSE IF local.hdir + 1 < Len(HORIZONTAL_DIRS)
                       THEN [local EXCEPT !.hdir = @ + 1, !.x_pos = local.pos, !.iter = 0]
                       ELSE local
    /\ UNCHANGED <<grid, op, arg, ret, queue, prealloc, disables, from, data0,
                   pushed, ctor, len0>>

\* One turn of `for _ in 0..size_x` in the current horizontal direction: the
\* run fills the next cell and calls explore_vertical on it, or it ends (the
\* range is exhausted, or break) and the next direction, or the next while
\* iteration, starts.
ForStep ==
    /\ pc = "for"
    /\ LET w == IF local.iter < grid.size_x
                THEN WalkStep(grid, FillState(data, queue, applied, pushed),
                              local.x_pos, HORIZONTAL_DIRS[local.hdir + 1])
                ELSE [st |-> FillState(data, queue, applied, pushed),
                      moved |-> FALSE, next |-> local.x_pos]
       IN  /\ data' = w.st.data
           /\ applied' = w.st.applied
           /\ pc' = IF w.st.panic THEN "panic"
                    ELSE IF w.moved THEN "vertical"
                    ELSE IF local.hdir + 1 < Len(HORIZONTAL_DIRS) THEN "for"
                    ELSE "while"
           /\ local' = IF w.moved
                       THEN [local EXCEPT !.vfrom = w.next, !.vdir = 0, !.vret = "run"]
                       ELSE IF local.hdir + 1 < Len(HORIZONTAL_DIRS)
                       THEN [local EXCEPT !.hdir = @ + 1, !.x_pos = local.pos, !.iter = 0]
                       ELSE local
    /\ UNCHANGED <<grid, op, arg, ret, queue, prealloc, disables, from, data0,
                   pushed, ctor, len0>>

\* What a caller's pre-allocated queue may hold on entry.
StaleQueues == { [i \in 1 .. k |-> CartesianPosition(0, 0, 0)] : k \in 0 .. MaxStale }

InitFillWith(d) ==
    /\ grid \in Grids2D("CartesianGrid", FillMaxX, FillMaxY)
    /\ data \in Buffers(total_size(grid))
    /\ op = "none"
    /\ arg = NoCall
    /\ ret = None
    /\ pc = "idle"
    /\ prealloc \in BOOLEAN
    /\ queue \in IF prealloc THEN StaleQueues ELSE {<<>>}
    /\ disables = d
    /\ from = CartesianPosition(0, 0, 0)
    /\ data0 = data
    /\ applied = Zeros(total_size(grid))
    /\ pushed = Zeros(total_size(grid))
    /\ ctor = "new"
    /\ len0 = Len(data)
    /\ local = NoLocals

InitFill == InitFillWith(TRUE)

InitLoop == InitFillWith(FALSE)

\* The steps of a flood_fill that has entered its loop.
NextLoop ==
    \/ WhilePop
    \/ FloodFillReturn
    \/ ExploreVerticalStep
    \/ ForStep

NextFill ==
    \/ FloodFillStart
    \/ NextLoop

\* A call that has entered its loop keeps running: the function is synchronous.
FillFairness == WF_vars(NextLoop)

\* flood_fill with an action that disables condition.
SpecFill == InitFill /\ [][NextFill]_vars /\ FillFairness

\* flood_fill with an action that leaves condition true.
SpecLoop == InitLoop /\ [][NextFill]_vars /\ FillFairness

\* ------------------------------------------------- SpecData: a GridData's life
\* vec![element; n]
VecOf(element, n) == [i \in 1 .. n |-> element]

\* D::default()
DefaultElement == 0

\* CartesianGrid::default_grid_data / GridDefinition::default_grid_data
default_grid_data(g) == VecOf(DefaultElement, total_size(g))

\* CartesianGrid::new_grid_data / GridDefinition::new_grid_data
new_grid_data_xy_only(g, element) == VecOf(element, g.size_x * g.size_y)

new_grid_data(g, element) == VecOf(element, total_size(g))

\* self.data[index] = value for each index of the sequence in turn; the first
\* index past the buffer panics, the elements written before it stay written.
RECURSIVE WriteAll(_, _, _)
WriteAll(d, indexes, value) ==
    IF indexes = <<>> THEN [data |-> d, panic |-> FALSE]
    ELSE IF Head(indexes) >= Len(d) THEN [data |-> d, panic |-> TRUE]
    ELSE WriteAll([d EXCEPT ![Head(indexes) + 1] = value], Tail(indexes), value)

\* The indexes each bulk fill writes, in the order of its loops: the start
\* index, then the strides the loops add.
set_all_x_indexes(g, x) ==
    [k \in 1 .. g.size_z * g.size_y |-> x + (k - 1) * g.size_x]

set_all_y_indexes_contiguous(g, y) ==
    [k \in 1 .. g.size_z * g.size_x |-> y * g.size_x + (k - 1)]

set_all_y_indexes(g, y) ==
    [k \in 1 .. g.size_z * g.size_x |->
        y * g.size_x + ((k - 1) \div g.size_x) * g.size_xy + ((k - 1) % g.size_x)]

set_all_z_indexes(g, z) ==
    [k \in 1 .. g.size_y * g.size_x |-> z * g.size_xy + (k - 1)]

set_all_xy_indexes(g, x, y) ==
    [k \in 1 .. g.size_z |-> x + y * g.size_x + (k - 1) * g.size_xy]

set_all_xz_indexes(g, x, z) ==
    [k \in 1 .. g.size_y |-> x + z * g.size_xy + (k - 1) * g.size_x]

set_all_yz_indexes(g, y, z) ==
    [k \in 1 .. g.size_x |-> y * g.size_x + z * g.size_xy + (k - 1)]

DataFrame ==
    UNCHANGED <<grid, op, arg, ret, queue, prealloc, disables, from, data0, applied,
                pushed, ctor, len0, local>>

\* The buffer after a call that writes `value` at `indexes`, or the panic.
Writes(indexes, value) ==
    LET w == WriteAll(data, indexes, value)
    IN  /\ data' = w.data
        /\ pc' = IF w.panic THEN "panic" ELSE "idle"
        /\ DataFrame

\* set_raw(index, value), set(index, value), and a write through get_mut(index).
SetRaw ==
    /\ pc = "idle"
    /\ \E index \in 0 .. grid.size_x * grid.size_y * grid.size_z - 1, value \in Elements :
          Writes(<<index>>, value)

\* set(&position, value), and a write through get_mut_from_pos(&position).
SetAtPos ==
    /\ pc = "idle"
    /\ \E pos \in Positions(grid), value \in Elements :
          Writes(<<index_from_pos(grid, pos)>>, value)

SetAllX ==
    /\ pc = "idle"
    /\ \E x \in 0 .. grid.size_x - 1, value \in Elements :
          Writes(set_all_x_indexes(grid, x), value)

SetAllY ==
    /\ pc = "idle"
    /\ \E y \in 0 .. grid.size_y - 1, value \in Elements :
          Writes(set_all_y_indexes(grid, y), value)

SetAllZ ==
    /\ pc = "idle"
    /\ \E z \in 0 .. grid.size_z - 1, value \in Elements :
          Writes(set_all_z_indexes(grid, z), value)

SetAllXY ==
    /\ pc = "idle"
    /\ \E x \in 0 .. grid.size_x - 1, y \in 0 .. grid.size_y - 1, value \in Elements :
          Writes(set_all_xy_indexes(grid, x, y), value)

SetAllXZ ==
    /\ pc = "idle"
    /\ \E x \in 0 .. grid.size_x - 1, z \in 0 .. grid.size_z - 1, value \in Elements :
          Writes(set_all_xz_indexes(grid, x, z), value)

SetAllYZ ==
    /\ pc = "idle"
    /\ \E y \in 0 .. grid.size_y - 1, z \in 0 .. grid.size_z - 1, value \in Elements :
          Writes(set_all_yz_indexes(grid, y, z), value)

\* reset(value): every element of the buffer, whatever its length.
Reset ==
    /\ pc = "idle"
    /\ \E value \in Elements :
          /\ data' = VecOf(value, Len(data))
          /\ pc' = "idle"
          /\ DataFrame

\* flood_fill has returned to the owner of the GridData.
FloodFillReturned ==
    /\ pc = "done"
    /\ pc' = "idle"
    /\ UNCHANGED <<grid, data, op, arg, ret, queue, prealloc, disables, from, data0,
                   applied, pushed, ctor, len0, local>>

DataGrids ==
    UNION { Grids2D(k, DataMaxX, DataMaxY) \cup Grids3D(k, DataMaxX, DataMaxY, DataMaxZ)
            : k \in GridKinds }

\* The Vecs a caller may hand to GridData::new: of the grid's real size, or one
\* element shorter or longer.
NewBuffers(g) ==
    LET n == g.size_x * g.size_y * g.size_z
    IN  UNION { Buffers(k) : k \in {n - 1, n, n + 1} }

InitData ==
    /\ grid \in DataGrids
    /\ ctor \in {"new", "default_grid_data", "new_grid_data"}
    /\ data \in IF ctor = "new" THEN { VecOf(e, Len(b)) : e \in Elements, b \in NewBuffers(grid) }
                ELSE IF ctor = "default_grid_data" THEN {default_grid_data(grid)}
                ELSE { new_grid_data(grid, e) : e \in Elements }
    /\ len0 = Len(data)
    /\ op = "none"
    /\ arg = NoCall
    /\ ret = None
    /\ pc = "idle"
    /\ queue = <<>>
    /\ prealloc = FALSE
    /\ disables = TRUE
    /\ from = CartesianPosition(0, 0, 0)
    /\ data0 = data
    /\ applied = <<>>
    /\ pushed = <<>>
    /\ local = NoLocals

NextData ==
    \/ SetRaw
    \/ SetAtPos
    \/ SetAllX
    \/ SetAllY
    \/ SetAllZ
    \/ SetAllXY
    \/ SetAllXZ
    \/ SetAllYZ
    \/ Reset
    \/ FloodFillStart
    \/ NextLoop
    \/ FloodFillReturned

SpecData == InitData /\ [][NextData]_vars

\* -------------- SpecLife: a grid, the GridData built on it, and every call
LifeGrids ==
    UNION { Grids2D(k, LifeMaxX, LifeMaxY) \cup Grids3D(k, LifeMaxX, LifeMaxY, LifeMaxZ)
            : k \in GridKinds }

\* A grid from one of its constructors, cloned into a GridData by
\* default_grid_data.
InitLife ==
    /\ grid \in LifeGrids
    /\ ctor = "default_grid_data"
    /\ data = default_grid_data(grid)
    /\ len0 = Len(data)
    /\ op = "none"
    /\ arg = NoCall
    /\ ret = None
    /\ pc = "idle"
    /\ queue = <<>>
    /\ prealloc = FALSE
    /\ disables = TRUE
    /\ from = CartesianPosition(0, 0, 0)
    /\ data0 = data
    /\ applied = <<>>
    /\ pushed = <<>>
    /\ local = NoLocals

\* The owner calls one function at a time: a conversion or a neighbour query
\* while no flood_fill runs, a GridData operation once the last result was
\* taken.
NextLife ==
    \/ pc = "idle" /\ NextGrid
    \/ Idle /\ NextData

SpecLife == InitLife /\ [][NextLife]_vars

\* ------------------------- SpecRaw: conversions called with any argument
\* u32 arithmetic: a result past U32Max panics in a build with overflow
\* checks (debug) and wraps in a build without (release).
u32_saturating(v, overflow_checks) ==
    IF v <= U32Max THEN Some(v) ELSE Some(U32Max)

u32(v, overflow_checks) ==
    IF v <= U32Max THEN Some(v)
    ELSE IF overflow_checks THEN Panic
    ELSE Some(v % (U32Max + 1))

\* index_from_coords on any u32 coordinates. Its terms are not negative, so
\* some step of x + y * size_x + z * size_xy overflows exactly when the whole
\* sum does; the final conversion to usize does not fail.
index_from_coords_u32(g, x, y, z, overflow_checks) ==
    u32(x + y * g.size_x + z * g.size_xy, overflow_checks)

\* pos_from_index on any usize: u32::try_from(grid_index).unwrap() panics past
\* u32::MAX, and nothing else is tested.
pos_from_index_usize(g, grid_index) ==
    IF grid_index > U32Max THEN Panic ELSE Some(pos_from_index(g, grid_index))

\* The conversions read the sizes of the grid only: its looping flags are left
\* FALSE. The sizes are those whose products fit the u32.
RawGrids ==
    { g \in UNION { Grids2D(k, RawMaxX, RawMaxY) \cup Grids3D(k, RawMaxX, RawMaxY, RawMaxZ)
                    : k \in GridKinds } :
        /\ ~g.looping_x /\ ~g.looping_y /\ ~g.looping_z
        /\ g.size_x * g.size_y * g.size_z <= U32Max }

InitRaw ==
    /\ grid \in RawGrids
    /\ data = <<>>
    /\ op = "none"
    /\ arg = NoCall
    /\ ret = None
    /\ pc = "idle"
    /\ queue = <<>>
    /\ prealloc = FALSE
    /\ disables = TRUE
    /\ from = CartesianPosition(0, 0, 0)
    /\ data0 = <<>>
    /\ applied = <<>>
    /\ pushed = <<>>
    /\ ctor = "none"
    /\ len0 = 0
    /\ local = NoLocals

CallIndexFromCoordsRaw ==
    /\ Idle
    /\ \E x \in 0 .. U32Max, y \in 0 .. U32Max, z \in 0 .. U32Max, overflow_checks \in BOOLEAN :
        /\ op' = "index_from_coords"
        /\ arg' = [x |-> x, y |-> y, z |-> z, overflow_checks |-> overflow_checks]
        /\ ret' = index_from_coords_u32(grid, x, y, z, overflow_checks)
        /\ GridFrame

\* The index is a usize: U32Max + 1 stands for the values past u32::MAX.
CallPosFromIndexRaw ==
    /\ Idle
    /\ \E grid_index \in 0 .. U32Max + 1 :
        /\ op' = "pos_from_index"
        /\ arg' = grid_index
        /\ ret' = pos_from_index_usize(grid, grid_index)
        /\ GridFrame

NextRaw ==
    \/ CallIndexFromCoordsRaw
    \/ CallPosFromIndexRaw
    \/ CallReturn

SpecRaw == InitRaw /\ [][NextRaw]_vars

\* --------------------------- SpecAccess: a GridData accessed by position
\* self.data[index]: the element and where it is, or the panic of an index
\* past the end of the Vec.
ElementAt_unchecked(d, index) ==
    Some([index |-> index, value |-> IF index < Len(d) THEN d[index + 1] ELSE 0])

ElementAt(d, index) ==
    IF index >= Len(d) THEN Panic
    ELSE Some([index |-> index, value |-> d[index + 1]])

\* get_index_2d on any u32 coordinates.
get_index_2d_u32(g, x, y, overflow_checks) == u32(x + y * g.size_x, overflow_checks)

\* get_from_pos (and get_3d, the same computation on three coordinates).
get_from_pos(g, d, pos, overflow_checks) ==
    LET i == index_from_coords_u32(g, pos.x, pos.y, pos.z, overflow_checks)
    IN  IF i.tag = "Panic" THEN Panic ELSE ElementAt(d, i.val)

get_2d(g, d, x, y, overflow_checks) ==
    LET i == get_index_2d_u32(g, x, y, overflow_checks)
    IN  IF i.tag = "Panic" THEN Panic ELSE ElementAt(d, i.val)

\* Coordinates in the axis, up to AccessReach past its end, and the largest u32.
AccessCoords(size) == (0 .. size - 1 + AccessReach) \cup {U32Max}

AccessPositions(g) ==
    { CartesianPosition(x, y, z) :
        x \in AccessCoords(g.size_x), y \in AccessCoords(g.size_y),
        z \in AccessCoords(g.size_z) }

AccessFrame ==
    UNCHANGED <<grid, pc, queue, prealloc, disables, from, applied, pushed, ctor,
                len0, local>>

\* get_from_pos(&pos), get_3d(x, y, z), and the read of get_mut_from_pos(&pos).
CallGetFromPos ==
    /\ Idle
    /\ grid.kind = "CartesianGrid"
    /\ \E pos \in AccessPositions(grid), overflow_checks \in BOOLEAN :
        /\ op' = "get_from_pos"
        /\ arg' = [pos |-> pos, overflow_checks |-> overflow_checks]
        /\ ret' = get_from_pos(grid, data, pos, overflow_checks)
        /\ data0' = data
        /\ data' = data
        /\ AccessFrame

CallGet2d ==
    /\ Idle
    /\ grid.kind = "CartesianGrid" /\ grid.coord_system = "Cartesian2D"
    /\ \E x \in AccessCoords(grid.size_x), y \in AccessCoords(grid.size_y),
          overflow_checks \in BOOLEAN :
        /\ op' = "get_2d"
        /\ arg' = [pos |-> CartesianPosition(x, y, 0), overflow_checks |-> overflow_checks]
        /\ ret' = get_2d(grid, data, x, y, overflow_checks)
        /\ data0' = data
        /\ data' = data
        /\ AccessFrame

\* set(&pos, value), and a write through get_mut_from_pos(&pos).
CallSetAtPos ==
    /\ Idle
    /\ \E pos \in AccessPositions(grid), value \in Elements, overflow_checks \in BOOLEAN :
        LET r == get_from_pos(grid, data, pos, overflow_checks)
        IN  /\ op' = "set"
            /\ arg' = [pos |-> pos, value |-> value, overflow_checks |-> overflow_checks]
            /\ ret' = IF r.tag = "Panic" THEN Panic
                      ELSE Some([index |-> r.val.index, value |-> value])
            /\ data0' = data
            /\ data' = IF r.tag = "Panic" THEN data
                       ELSE [data EXCEPT ![r.val.index + 1] = value]
            /\ AccessFrame

InitAccess ==
    /\ grid \in RawGrids
    /\ ctor \in {"default_grid_data", "new_grid_data"}
    /\ data \in IF ctor = "default_grid_data" THEN {default_grid_data(grid)}
                ELSE { new_grid_data(grid, e) : e \in Elements }
    /\ len0 = Len(data)
    /\ op = "none"
    /\ arg = NoCall
    /\ ret = None
    /\ pc = "idle"
    /\ queue = <<>>
    /\ prealloc = FALSE
    /\ disables = TRUE
    /\ from = CartesianPosition(0, 0, 0)
    /\ data0 = data
    /\ applied = <<>>
    /\ pushed = <<>>
    /\ local = NoLocals

NextAccess ==
    \/ CallGetFromPos
    \/ CallGet2d
    \/ CallSetAtPos
    \/ CallReturn

SpecAccess == InitAccess /\ [][NextAccess]_vars

\* ------------------------------------- SpecBulk: one bulk fill at a time
\* A bulk fill called on a buffer of size_x * size_y * size_z elements; the
\* call, its arguments and the buffer on entry are kept for the comparison.
BulkCall(name, a, indexes) ==
    LET w == WriteAll(data, indexes, a.value)
    IN  /\ op' = name
        /\ arg' = a
        /\ ret' = None
        /\ data0' = data
        /\ data' = w.data
        /\ pc' = IF w.panic THEN "panic" ELSE "idle"
        /\ UNCHANGED <<grid, queue, prealloc, disables, from, applied, pushed, ctor,
                       len0, local>>

CallSetAllX ==
    /\ Idle /\ pc = "idle"
    /\ \E x \in 0 .. grid.size_x - 1, value \in Elements :
          BulkCall("set_all_x", [x |-> x, value |-> value], set_all_x_indexes(grid, x))

CallSetAllY ==
    /\ Idle /\ pc = "idle"
    /\ \E y \in 0 .. grid.size_y - 1, value \in Elements :
          BulkCall("set_all_y", [y |-> y, value |-> value], set_all_y_indexes(grid, y))

CallSetAllZ ==
    /\ Idle /\ pc = "idle"
    /\ \E z \in 0 .. grid.size_z - 1, value \in Elements :
          BulkCall("set_all_z", [z |-> z, value |-> value], set_all_z_indexes(grid, z))

CallSetAllXY ==
    /\ Idle /\ pc = "idle"
    /\ \E x \in 0 .. grid.size_x - 1, y \in 0 .. grid.size_y - 1, value \in Elements :
          BulkCall("set_all_xy", [x |-> x, y |-> y, value |-> value],
                   set_all_xy_indexes(grid, x, y))

CallSetAllXZ ==
    /\ Idle /\ pc = "idle"
    /\ \E x \in 0 .. grid.size_x - 1, z \in 0 .. grid.size_z - 1, value \in Elements :
          BulkCall("set_all_xz", [x |-> x, z |-> z, value |-> value],
                   set_all_xz_indexes(grid, x, z))

CallSetAllYZ ==
    /\ Idle /\ pc = "idle"
    /\ \E y \in 0 .. grid.size_y - 1, z \in 0 .. grid.size_z - 1, value \in Elements :
          BulkCall("set_all_yz", [y |-> y, z |-> z, value |-> value],
                   set_all_yz_indexes(grid, y, z))

\* The bulk fills read the sizes of the grid only: its looping flags are left
\* FALSE.
BulkGrids == { g \in DataGrids : ~g.looping_x /\ ~g.looping_y /\ ~g.looping_z }

\* GridData::new(grid, data) with a Vec of size_x * size_y * size_z elements.
InitBulk ==
    /\ grid \in BulkGrids
    /\ ctor = "new"
    /\ data \in Buffers(grid.size_x * grid.size_y * grid.size_z)
    /\ len0 = Len(data)
    /\ op = "none"
    /\ arg = NoCall
    /\ ret = None
    /\ pc = "idle"
    /\ queue = <<>>
    /\ prealloc = FALSE
    /\ disables = TRUE
    /\ from = CartesianPosition(0, 0, 0)
    /\ data0 = data
    /\ applied = <<>>
    /\ pushed = <<>>
    /\ local = NoLocals

NextBulk ==
    \/ CallSetAllX
    \/ CallSetAllY
    \/ CallSetAllZ
    \/ CallSetAllXY
    \/ CallSetAllXZ
    \/ CallSetAllYZ
    \/ CallReturn

SpecBulk == InitBulk /\ [][NextBulk]_vars

\* ------------------------- SpecQueue: whole flood_fill calls, with any queue
\* explore_vertical(queue, from, condition, action)
explore_vertical(g, st, pos) ==
    VisitVertical(g, VisitVertical(g, st, pos, VERTICAL_DIRS[1]), pos, VERTICAL_DIRS[2])

\* The `for _ in 0..size_x` loop of one horizontal direction from x_pos, with
\* `turns` turns left.
RECURSIVE HorizontalRun(_, _, _, _, _)
HorizontalRun(g, st, x_pos, horizontal_dir, turns) ==
    IF turns = 0 \/ st.panic THEN st
    ELSE LET w == WalkStep(g, st, x_pos, horizontal_dir)
         IN  IF ~w.moved THEN w.st
             ELSE HorizontalRun(g, explore_vertical(g, w.st, w.next), w.next,
                                horizontal_dir, turns - 1)

\* `while let Some(pos) = queue.pop_front()` run until the queue is empty.
RECURSIVE WhileLoop(_, _)
WhileLoop(g, st) ==
    IF st.panic \/ st.queue = <<>> THEN st
    ELSE LET pos == Head(st.queue)
             popped == [st EXCEPT !.queue = PopFrontRest(@)]
             explored == explore_vertical(g, popped, pos)
             backward == HorizontalRun(g, explored, pos, HORIZONTAL_DIRS[1], g.size_x)
         IN  WhileLoop(g, HorizontalRun(g, backward, pos, HORIZONTAL_DIRS[2], g.size_x))

\* flood_fill(from, condition, action, pre_allocated_queue) as one call: the
\* FillState it ends in. pre_allocated_queue is None or Some(queue).
flood_fill(g, d, initial_pos, pre_allocated_queue) ==
    LET q == IF pre_allocated_queue.tag = "Some"
             THEN VecDequeClear(pre_allocated_queue.val)
             ELSE <<>>
        i == index_from_pos(g, initial_pos)
        st == FillState(d, q, Zeros(Len(d)), Zeros(Len(d)))
    IN  IF i >= Len(d) THEN Panicked(st)
        ELSE IF ~condition(d[i + 1]) THEN st
        ELSE WhileLoop(g, PushBack(ApplyAction(st, i), initial_pos, i))

\* The queues a caller may pass: up to MaxQueued positions of the grid, left
\* there by an earlier use.
SuppliedQueues(g) ==
    UNION { [1 .. k -> Positions(g)] : k \in 0 .. MaxQueued }

QueueArguments(g) == {None} \cup { Some(q) : q \in SuppliedQueues(g) }

CallFloodFill ==
    /\ Idle /\ pc = "idle"
    /\ \E initial_pos \in Positions(grid), pre_allocated_queue \in QueueArguments(grid) :
          LET st == flood_fill(grid, data, initial_pos, pre_allocated_queue)
          IN  /\ op' = "flood_fill"
              /\ arg' = [from |-> initial_pos, pre_allocated_queue |-> pre_allocated_queue]
              /\ ret' = None
              /\ from' = initial_pos
              /\ prealloc' = (pre_allocated_queue.tag = "Some")
              /\ data0' = data
              /\ data' = st.data
              /\ queue' = st.queue
              /\ applied' = st.applied
              /\ pushed' = st.pushed
              /\ pc' = IF st.panic THEN "panic" ELSE "idle"
              /\ UNCHANGED <<grid, disables, ctor, len0, local>>

InitQueue ==
    /\ grid \in Grids2D("CartesianGrid", FillMaxX, FillMaxY)
    /\ ctor = "new"
    /\ data \in Buffers(total_size(grid))
    /\ len0 = Len(data)
    /\ op = "none"
    /\ arg = NoCall
    /\ ret = None
    /\ pc = "idle"
    /\ queue = <<>>
    /\ prealloc = FALSE
    /\ disables = TRUE
    /\ from = CartesianPosition(0, 0, 0)
    /\ data0 = data
    /\ applied = Zeros(total_size(grid))
    /\ pushed = Zeros(total_size(grid))
    /\ local = NoLocals

NextQueue ==
    \/ CallFloodFill
    \/ CallReturn

SpecQueue == InitQueue /\ [][NextQueue]_vars

\* ---------------------------------------------------- claims on the GridData
\* C8 as stated: the buffer has exactly grid.total_size() elements in every
\* state, whichever constructor built the GridData.
C8_LengthIsTotalSize == Len(data) = total_size(grid)

\* C8 as amended: no operation changes the buffer's length, which is
\* grid.total_size() when default_grid_data or new_grid_data built the GridData.
C8_LengthKept ==
    /\ Len(data) = len0
    /\ ctor \in {"default_grid_data", "new_grid_data"} => Len(data) = total_size(grid)

C8_Witness ==
    /\ pc = "done"
    /\ ctor = "new_grid_data"
    /\ grid.size_x = 2 /\ grid.size_y = 2
    /\ data0 = <<1, 0, 0, 1>>
    /\ data = <<0, 0, 0, 1>>

\* ------------------------------------------------ claims on the grid functions
\* The axis a direction moves along and the sign of the move, as the Direction
\* enum documents them (X+ = 0, Y+ = 1, X- = 2, Y- = 3, Z+ = 4, Z- = 5).
AxisOf(d) ==
    IF d \in {0, 2} THEN "x" ELSE IF d \in {1, 3} THEN "y" ELSE "z"

SignOf(d) == IF d \in {0, 1, 4} THEN 1 ELSE -1

InDirections(cs, d) == \E i \in 1 .. Len(directions(cs)) : directions(cs)[i] = d

AxisSize(g, a) == IF a = "x" THEN g.size_x ELSE IF a = "y" THEN g.size_y ELSE g.size_z

AxisLooping(g, a) ==
    IF a = "x" THEN g.looping_x ELSE IF a = "y" THEN g.looping_y ELSE g.looping_z

AxisCoord(pos, a) == IF a = "x" THEN pos.x ELSE IF a = "y" THEN pos.y ELSE pos.z

AxisDelta(delta, a) ==
    IF a = "x" THEN delta.dx ELSE IF a = "y" THEN delta.dy ELSE delta.dz

Axes == {"x", "y", "z"}

\* A move of one unit along axis a and nothing along the other two.
UnitAlong(delta, a) ==
    /\ AxisDelta(delta, a) \in {-1, 1}
    /\ \A b \in Axes \ {a} : AxisDelta(delta, b) = 0

\* The move of `step` along axis a from pos steps over the end of the axis.
OverTheEnd(g, pos, a, step) ==
    \/ step = -1 /\ AxisCoord(pos, a) = 0
    \/ step = 1 /\ AxisCoord(pos, a) = AxisSize(g, a) - 1

\* C1: on a CartesianGrid, index_from_coords of an in-grid position is an index
\* below total_size that pos_from_index maps back to the position, and
\* pos_from_index of an index below total_size is an in-grid position that
\* index_from_pos maps back to the index.
C1_RoundTrip ==
    /\ (op = "index_from_coords" /\ grid.kind = "CartesianGrid") =>
            /\ ret \in 0 .. total_size(grid) - 1
            /\ pos_from_index(grid, ret) = arg
    /\ (op = "pos_from_index" /\ grid.kind = "CartesianGrid") =>
            /\ ret \in Positions(grid)
            /\ index_from_pos(grid, ret) = arg

C1_Witness ==
    /\ op = "index_from_coords"
    /\ grid.kind = "CartesianGrid"
    /\ arg.x > 0 /\ arg.y > 0 /\ arg.z > 0
    /\ ret = total_size(grid) - 1

\* C9: total_size() is size_x * size_y * size_z for every grid of both grid
\* implementations, CartesianGrid and GridDefinition.
C9_TotalSize ==
    op = "total_size" => ret = grid.size_x * grid.size_y * grid.size_z

WrappedCoord(g, a, step) == IF step = -1 THEN AxisSize(g, a) - 1 ELSE 0

\* ret is the position reached from pos by wrapping along axis a only.
WrapsAlong(g, pos, a, step, r) ==
    /\ r.tag = "Some"
    /\ AxisCoord(r.val, a) = WrappedCoord(g, a, step)
    /\ \A b \in Axes \ {a} : AxisCoord(r.val, b) = AxisCoord(pos, b)

\* C11: on a looping axis, one unit in the negative direction from coordinate
\* 0 gives coordinate size - 1 and one unit in the positive direction from
\* coordinate size - 1 gives coordinate 0, the other two coordinates unchanged
\* (get_next_pos with a unit delta, and get_next_pos_in_direction).
C11_LoopingWrap ==
    /\ op = "get_next_pos" =>
          \A a \in Axes :
              ( /\ UnitAlong(arg.delta, a)
                /\ AxisLooping(grid, a)
                /\ OverTheEnd(grid, arg.pos, a, AxisDelta(arg.delta, a)) )
              => WrapsAlong(grid, arg.pos, a, AxisDelta(arg.delta, a), ret)
    /\ ( /\ op = "get_next_pos_in_direction"
         /\ InDirections(grid.coord_system, arg.direction)
         /\ AxisLooping(grid, AxisOf(arg.direction))
         /\ OverTheEnd(grid, arg.pos, AxisOf(arg.direction), SignOf(arg.direction)) )
       => WrapsAlong(grid, arg.pos, AxisOf(arg.direction), SignOf(arg.direction), ret)

C11_Witness ==
    /\ op = "get_next_pos"
    /\ arg.delta = GridDelta(0, -1, 0)
    /\ grid.size_y = 3 /\ grid.looping_y
    /\ arg.pos = CartesianPosition(1, 0, 1)
    /\ ret = Some(CartesianPosition(1, 2, 1))

\* The coordinate of pos moved by delta along axis a, before any resolution.
MovedCoord(pos, delta, a) == AxisCoord(pos, a) + AxisDelta(delta, a)

\* Axis a does not loop and the moved coordinate is outside 0 .. size - 1.
LeavesAxis(g, pos, delta, a) ==
    /\ ~AxisLooping(g, a)
    /\ MovedCoord(pos, delta, a) < 0 \/ MovedCoord(pos, delta, a) >= AxisSize(g, a)

\* C12: get_next_pos returns None when some non-looping axis ends up negative
\* or >= its size, whatever the other axes do, and only then; it returns a
\* position only when no axis did.
C12_AnyAxisInvalidates ==
    op = "get_next_pos" =>
        /\ (\E a \in Axes : LeavesAxis(grid, arg.pos, arg.delta, a)) <=> ret.tag = "None"
        /\ ret.tag = "Some" => \A a \in Axes : ~LeavesAxis(grid, arg.pos, arg.delta, a)

\* X wraps on its looping axis while Y leaves its non-looping one.
C12_Witness ==
    /\ op = "get_next_pos"
    /\ grid.looping_x /\ ~grid.looping_y
    /\ arg.delta = GridDelta(1, -1, 0)
    /\ arg.pos.x = grid.size_x - 1 /\ arg.pos.y = 0
    /\ ret.tag = "None"

\* C13: for an in-grid position, a direction of the coordinate system and any
\* units, get_index_in_direction returns None or the index of a position
\* inside the grid (an index below total_size whose coordinates are each below
\* the axis size), and None exactly when the destination is not in the grid,
\* i.e. when it leaves the direction's axis and that axis does not loop.
C13_NoneOrInGridIndex ==
    (op = "get_index_in_direction" /\ InDirections(grid.coord_system, arg.direction)) =>
        /\ ret.tag \in {"None", "Some"}
        /\ ret.tag = "Some" =>
              /\ ret.val < total_size(grid)
              /\ pos_from_index(grid, ret.val) \in Positions(grid)
        /\ ret.tag = "None" <=>
              LeavesAxis(grid, arg.pos,
                         Mul(deltas(grid.coord_system)[arg.direction + 1], arg.units),
                         AxisOf(arg.direction))

\* ---------------------------------------------------- claims on bulk fills
BulkFills == {"set_all_x", "set_all_y", "set_all_z", "set_all_xy", "set_all_xz", "set_all_yz"}

\* pos has the coordinates the call fixed.
MatchesFixed(pos, a) == \A f \in DOMAIN a \cap {"x", "y", "z"} : pos[f] = a[f]

\* The naive fill: every position of the grid is visited and the element at
\* its index is set when the position matches the fixed coordinates.
NaiveSetAll(g, d, a) ==
    [i \in 1 .. Len(d) |->
        IF \E pos \in Positions(g) :
              /\ index_from_coords(g, pos.x, pos.y, pos.z) = i - 1
              /\ MatchesFixed(pos, a)
        THEN a.value
        ELSE d[i]]

\* C14: a bulk fill called with in-range fixed coordinates on a buffer of
\* size_x * size_y * size_z elements returns, and leaves every element whose
\* position matches the fixed coordinates equal to the value and every other
\* element unchanged, as the naive loop over all positions does.
C14_BulkFillAsNaive ==
    op \in BulkFills =>
        /\ pc = "idle"
        /\ data = NaiveSetAll(grid, data0, arg)

C14_Witness ==
    /\ op = "set_all_y"
    /\ grid.size_x = 2 /\ grid.size_y = 2 /\ grid.size_z = 2
    /\ arg = [y |-> 1, value |-> 1]
    /\ data0 = <<0, 0, 0, 0, 0, 0, 0, 0>>
    /\ data = <<0, 0, 1, 1, 0, 0, 1, 1>>

\* The change of index the layout gives a unit move in direction d: 1 along
\* X, size_x along Y, size_xy along Z, with the sign of the direction.
IndexStep(g, d) ==
    SignOf(d) * (IF AxisOf(d) = "x" THEN 1
                 ELSE IF AxisOf(d) = "y" THEN g.size_x
                 ELSE g.size_xy)

\* C15: index_from_coords(x, y, z) is x + y * size_x + z * size_x * size_y, and
\* a successful unit move that does not wrap changes the index by +1 (X+),
\* -1 (X-), +size_x (Y+), -size_x (Y-), +size_xy (Z+), -size_xy (Z-).
C15_RowMajorXFastest ==
    /\ op = "index_from_coords" =>
          ret = arg.x + arg.y * grid.size_x + arg.z * grid.size_x * grid.size_y
    /\ ( /\ op = "get_next_index_in_direction"
         /\ InDirections(grid.coord_system, arg.direction)
         /\ ret.tag = "Some"
         /\ ~OverTheEnd(grid, arg.pos, AxisOf(arg.direction), SignOf(arg.direction)) )
       => ret.val = index_from_pos(grid, arg.pos) + IndexStep(grid, arg.direction)

C15_Witness ==
    /\ op = "get_next_index_in_direction"
    /\ arg.direction = ZBackward
    /\ grid.size_x = 3 /\ grid.size_y = 3 /\ grid.size_z = 2
    /\ arg.pos = CartesianPosition(2, 1, 1)
    /\ ret = Some(5)

directions_count(g) == Len(directions(g.coord_system))

\* C16: get_neighbours_in_all_directions(index, buffer), for an index below
\* total_size and a buffer of at least directions_count() entries, writes in
\* entry i, for every i < directions_count(), what
\* get_next_index_in_direction(pos_from_index(index), directions()[i])
\* returns; the entry is None exactly when the move leaves the grid over a
\* non-looping axis; the entries from directions_count() on are unchanged.
C16_NeighboursInTableOrder ==
    ( /\ op = "get_neighbours_in_all_directions"
      /\ Len(arg.buffer) >= directions_count(grid) ) =>
        /\ ret.tag = "Some"
        /\ Len(ret.val) = Len(arg.buffer)
        /\ \A i \in 1 .. Len(ret.val) :
              IF i <= directions_count(grid)
              THEN LET d == directions(grid.coord_system)[i]
                       pos == pos_from_index(grid, arg.index)
                   IN  /\ ret.val[i] = get_next_index_in_direction(grid, pos, d)
                       /\ ret.val[i].tag = "None" <=>
                             ( /\ ~AxisLooping(grid, AxisOf(d))
                               /\ OverTheEnd(grid, pos, AxisOf(d), SignOf(d)) )
              ELSE ret.val[i] = arg.buffer[i]

C16_Witness ==
    /\ op = "get_neighbours_in_all_directions"
    /\ grid.size_x = 2 /\ grid.size_y = 2 /\ grid.size_z = 2
    /\ grid.looping_x /\ ~grid.looping_y /\ ~grid.looping_z
    /\ arg.index = 7
    /\ arg.buffer = <<Some(0), Some(0), Some(0), Some(0), Some(0), Some(0), Some(0)>>
    /\ ret = Some(<<Some(6), None, Some(6), Some(5), None, Some(3), Some(0)>>)

\* ------------------------------------ claims on calls with any argument
PositionAccesses == {"get_from_pos", "get_2d", "set"}

\* C17 as stated: an access by a position outside the grid crashes, and
\* neither returns nor modifies the data of some in-grid cell.
C17_OutsideAlwaysCrashes ==
    (op \in PositionAccesses /\ arg.pos \notin Positions(grid)) =>
        /\ ret.tag = "Panic"
        /\ data = data0

\* The access could not reach an element: the index of the position
\* overflowed in a build with overflow checks, or it is not below the length
\* of the buffer.
IndexPastBuffer(g, d, a) ==
    LET sum == a.pos.x + a.pos.y * g.size_x + a.pos.z * g.size_x * g.size_y
    IN  IF sum > U32Max THEN a.overflow_checks \/ sum % (U32Max + 1) >= Len(d)
        ELSE sum >= Len(d)

\* C17 as amended: an access by position crashes exactly when the index of
\* the position is not below the length of the buffer (or overflows in a
\* build with overflow checks), and then leaves the buffer unchanged; any
\* other access, from a position outside the grid too, reads or writes the
\* element at that index and no other.
C17_CrashesIffIndexPastBuffer ==
    op \in PositionAccesses =>
        /\ ret.tag = "Panic" <=> IndexPastBuffer(grid, data0, arg)
        /\ ret.tag = "Panic" => data = data0
        /\ ret.tag = "Some" =>
              /\ ret.val.index =
                    (arg.pos.x + arg.pos.y * grid.size_x
                        + arg.pos.z * grid.size_x * grid.size_y) % (U32Max + 1)
              /\ Len(data) = Len(data0)
              /\ \A i \in 1 .. Len(data) : i # ret.val.index + 1 => data[i] = data0[i]
              /\ data[ret.val.index + 1] =
                    IF op = "set" THEN arg.value ELSE data0[ret.val.index + 1]
              /\ op # "set" => ret.val.value = data0[ret.val.index + 1]

\* A write one row past the last row of a 2x2 grid crashes, after earlier
\* writes went through.
C17_Witness ==
    /\ op = "set"
    /\ grid.size_x = 2 /\ grid.size_y = 2 /\ grid.size_z = 1
    /\ arg.pos = CartesianPosition(0, 2, 0)
    /\ ret.tag = "Panic"
    /\ data = <<0, 1, 1, 0>>

\* C18 as stated: index_from_coords returns an index for every triple of u32
\* coordinates, in every build.
C18_NeverCrashes == op = "index_from_coords" => ret.tag = "Some"

\* C18 as amended: index_from_coords returns x + y * size_x + z * size_xy
\* whenever that sum fits the u32, coordinates outside the grid included; when
\* it does not fit, a build with overflow checks panics and a build without
\* returns the sum modulo 2^32.
C18_CrashesOnlyOnCheckedOverflow ==
    op = "index_from_coords" =>
        LET sum == arg.x + arg.y * grid.size_x + arg.z * grid.size_x * grid.size_y
        IN  IF sum <= U32Max THEN ret = Some(sum)
            ELSE IF arg.overflow_checks THEN ret.tag = "Panic"
            ELSE ret = Some(sum % (U32Max + 1))

\* Coordinates outside a 2x2x2 grid whose sum fits: an index, and no crash.
C18_Witness ==
    /\ op = "index_from_coords"
    /\ grid.size_x = 2 /\ grid.size_y = 2 /\ grid.size_z = 2
    /\ arg.x = 3 /\ arg.y = 2 /\ arg.z = 2
    /\ arg.overflow_checks
    /\ ret = Some(15)

\* C19: pos_from_index panics on every index that is not a valid index of the
\* grid, i.e. on every index >= total_size.
C19_PanicsOnInvalidIndex ==
    (op = "pos_from_index" /\ arg >= total_size(grid)) => ret.tag = "Panic"

\* ------------------------------------------- claims on the life of a grid
\* C20: the grid is immutable after construction: through conversions,
\* neighbour queries, bulk fills, reset and flood_fill its sizes and looping
\* flags keep the values the constructor was given, and the cached size_xy is
\* size_x * size_y.
C20_GridImmutable ==
    /\ [][grid' = grid]_vars
    /\ [](grid \in LifeGrids /\ grid.size_xy = grid.size_x * grid.size_y)

\* A neighbour query made after writes and a flood_fill changed the buffer.
C20_Witness ==
    /\ op = "get_next_pos"
    /\ ret.tag = "Some"
    /\ grid.size_x = 2 /\ grid.size_y = 2
    /\ grid.kind = "CartesianGrid" /\ grid.coord_system = "Cartesian2D"
    /\ data0 = <<1, 0, 0, 1>>
    /\ data = <<0, 0, 0, 1>>

\* ------------------------------------------------------ claims on flood_fill
StartIndex == index_from_pos(grid, from)

\* flood_fill was called and condition held on the start cell.
StartOpen == pc # "idle" /\ condition(data0[StartIndex + 1])

HorizontalDirs == {XBackward, XForward}

VerticalDirs == {YForward, YBackward}

\* The positions one step away from p in the directions ds.
NeighboursIn(g, p, ds) ==
    { q \in Positions(g) :
        \E d \in ds :
            LET r == get_next_pos_in_direction(g, p, d)
            IN  r.tag = "Some" /\ r.val = q }

\* The naive fill: the positions reachable from S by steps in the directions
\* ds through cells of the buffer d0 that satisfy condition.
RECURSIVE NaiveFill(_, _, _, _)
NaiveFill(g, d0, S, ds) ==
    LET N == S \cup { q \in Positions(g) :
                        /\ condition(d0[index_from_pos(g, q) + 1])
                        /\ \E p \in S : q \in NeighboursIn(g, p, ds) }
    IN  IF N = S THEN S ELSE NaiveFill(g, d0, N, ds)

\* C2: when flood_fill returns from a start that satisfied condition, action
\* was applied exactly to the cells a naive 4-connected fill reaches from the
\* start, and every other cell holds its initial value.
C2_SameAsNaiveFill ==
    (pc = "done" /\ StartOpen) =>
        LET R == NaiveFill(grid, data0, {from}, HorizontalDirs \cup VerticalDirs)
        IN  \A p \in Positions(grid) :
                LET i == index_from_pos(grid, p)
                IN  IF p \in R
                    THEN applied[i + 1] >= 1 /\ ~condition(data[i + 1])
                    ELSE applied[i + 1] = 0 /\ data[i + 1] = data0[i + 1]

\* A full-height wall at x = 1 of a non-looping 3x2 grid: the fill from (0, 0)
\* stays at x = 0.
C2_Witness ==
    /\ pc = "done"
    /\ grid.size_x = 3 /\ grid.size_y = 2
    /\ ~grid.looping_x /\ ~grid.looping_y
    /\ from = CartesianPosition(0, 0, 0)
    /\ data0 = <<1, 0, 1, 1, 0, 1>>
    /\ data = <<0, 0, 1, 0, 0, 1>>

\* C3: a flood_fill whose action disables condition returns.
C3_Terminates == Running ~> (pc = "done")

C3_Witness ==
    /\ pc = "done"
    /\ grid.looping_x /\ grid.looping_y
    /\ Cardinality({ i \in 1 .. Len(applied) : applied[i] >= 1 }) >= 5

\* Some cell of the start's horizontal run of cells satisfying condition (the
\* start included) has a Y+ or Y- neighbour that satisfies condition.
RunHasOpenVertical ==
    \E p \in NaiveFill(grid, data0, {from}, HorizontalDirs) :
        \E q \in NeighboursIn(grid, p, VerticalDirs) :
            condition(data0[index_from_pos(grid, q) + 1])

C5_AtMostOnce ==
    /\ \A i \in 1 .. Len(applied) : applied[i] <= 1
    /\ \A i \in 1 .. Len(pushed) : pushed[i] <= 1

\* Y+ and Y- resolve to the same cell (size_y = 2, looping) and X+ and X- to
\* the cell itself (size_x = 1, looping).
C5_Witness ==
    /\ pc = "done"
    /\ grid.size_x = 1 /\ grid.size_y = 2
    /\ grid.looping_x /\ grid.looping_y
    /\ applied = <<1, 1>>
    /\ pushed = <<1, 1>>

\* C6: a flood_fill whose start fails condition returns at once with the
\* buffer unchanged, action never applied and the queue empty.
C6_NoOpWhenStartFails ==
    (pc # "idle" /\ ~condition(data0[StartIndex + 1])) =>
        /\ pc = "done"
        /\ data = data0
        /\ \A i \in 1 .. Len(applied) : applied[i] = 0
        /\ \A i \in 1 .. Len(pushed) : pushed[i] = 0
        /\ queue = <<>>

C6_Witness ==
    /\ pc = "done"
    /\ prealloc
    /\ ~condition(data0[StartIndex + 1])
    /\ \E i \in 1 .. Len(data) : condition(data[i])
    /\ queue = <<>>

\* flood_fill runs on a grid looping on both axes whose cells all satisfied
\* condition on entry.
OpenTorus ==
    /\ grid.looping_x /\ grid.looping_y
    /\ \A i \in 1 .. Len(data0) : condition(data0[i])

\* C7: on a grid looping on both axes with every cell satisfying condition,
\* flood_fill returns, and has then applied action to every cell exactly once.
C7_TorusFilledOnce ==
    (Running /\ OpenTorus) ~>
        (pc = "done" /\ \A i \in 1 .. Len(applied) : applied[i] = 1)

C7_Witness ==
    /\ pc = "done"
    /\ OpenTorus
    /\ grid.size_x = 3 /\ grid.size_y = 2
    /\ from = CartesianPosition(1, 1, 0)
    /\ \A i \in 1 .. Len(applied) : applied[i] = 1

\* The steps of flood_fill end in the state the whole call gives.
FillStepsAsFloodFill ==
    pc = "done" =>
        LET st == flood_fill(grid, data0, from, IF prealloc THEN Some(<<>>) ELSE None)
        IN  data = st.data /\ applied = st.applied /\ pushed = st.pushed /\ ~st.panic

\* C21: flood_fill clears a supplied queue before using it: the buffer a call
\* ends with, whatever positions the supplied queue held on entry, is the
\* buffer the same call (same grid, buffer, start, condition and action) ends
\* with when no queue is passed; two calls that differ in the content of
\* their queue only therefore end with the same buffer.
C21_QueueContentIgnored ==
    op = "flood_fill" =>
        /\ pc = "idle"
        /\ data = flood_fill(grid, data0, arg.from, None).data

\* The queue held (0, 0), which satisfies condition like its neighbour (0, 1)
\* and is cut from the start (2, 0) by the wall at x = 1: neither is filled.
C21_Witness ==
    /\ op = "flood_fill"
    /\ grid.size_x = 3 /\ grid.size_y = 2
    /\ ~grid.looping_x /\ ~grid.looping_y
    /\ arg.from = CartesianPosition(2, 0, 0)
    /\ arg.pre_allocated_queue = Some(<<CartesianPosition(0, 0, 0)>>)
    /\ data0 = <<1, 0, 1, 1, 0, 1>>
    /\ data = <<1, 0, 0, 1, 0, 0>>

\* ------------------------------ SpecDir: directions and the static tables
\* Direction::opposite
opposite_x_only(d) ==
    CASE d = XForward -> XBackward
      [] d = XBackward -> XForward
      [] OTHER -> d

opposite(d) ==
    CASE d = XForward -> XBackward
      [] d = XBackward -> XForward
      [] d = YForward -> YBackward
      [] d = YBackward -> YForward
      [] d = ZForward -> ZBackward
      [] d = ZBackward -> ZForward

X_POS_AXIS == <<YForward, ZForward, YBackward, ZBackward>>

X_NEG_AXIS == <<ZForward, YForward, ZBackward, YBackward>>

Y_POS_AXIS == <<ZForward, XForward, ZBackward, XBackward>>

Y_NEG_AXIS == <<XForward, ZForward, XBackward, ZBackward>>

Z_POS_AXIS == <<XForward, YForward, XBackward, YBackward>>

Z_NEG_AXIS == <<YForward, XForward, YBackward, XBackward>>

\* Direction::rotation_basis
rotation_basis_unsigned(d) ==
    CASE d = XForward -> X_POS_AXIS
      [] d = XBackward -> X_POS_AXIS
      [] d = YForward -> Y_POS_AXIS
      [] d = YBackward -> Y_POS_AXIS
      [] d = ZForward -> Z_POS_AXIS
      [] d = ZBackward -> Z_POS_AXIS

rotation_basis(d) ==
    CASE d = XForward -> X_POS_AXIS
      [] d = XBackward -> X_NEG_AXIS
      [] d = YForward -> Y_POS_AXIS
      [] d = YBackward -> Y_NEG_AXIS
      [] d = ZForward -> Z_POS_AXIS
      [] d = ZBackward -> Z_NEG_AXIS

CallOpposite ==
    /\ Idle
    /\ \E d \in Direction :
        /\ op' = "opposite"
        /\ arg' = d
        /\ ret' = opposite(d)
        /\ GridFrame

CallRotationBasis ==
    /\ Idle
    /\ \E d \in Direction :
        /\ op' = "rotation_basis"
        /\ arg' = d
        /\ ret' = rotation_basis(d)
        /\ GridFrame

\* The coordinate system of a grid is asked for its tables.
CallDirections ==
    /\ Idle
    /\ op' = "directions"
    /\ arg' = NoCall
    /\ ret' = directions(grid.coord_system)
    /\ GridFrame

CallDirectionsCount ==
    /\ Idle
    /\ op' = "directions_count"
    /\ arg' = NoCall
    /\ ret' = directions_count(grid)
    /\ GridFrame

CallDeltas ==
    /\ Idle
    /\ op' = "deltas"
    /\ arg' = NoCall
    /\ ret' = deltas(grid.coord_system)
    /\ GridFrame

InitDir ==
    /\ InitGrid
    /\ grid.kind = "CartesianGrid"

NextDir ==
    \/ CallOpposite
    \/ CallRotationBasis
    \/ CallDirections
    \/ CallDirectionsCount
    \/ CallDeltas
    \/ CallReturn

SpecDir == InitDir /\ [][NextDir]_vars

\* ------------------------------------------------- claims on directions
\* C22: opposite is an involution without fixed point on the six directions:
\* opposite(opposite(d)) = d and opposite(d) # d for every direction d.
C22_OppositeInvolution ==
    op = "opposite" =>
        /\ ret \in Direction
        /\ opposite(ret) = arg
        /\ ret # arg

C22_Witness ==
    /\ op = "opposite"
    /\ arg = ZBackward
    /\ ret = ZForward

\* The component-wise negation of a GridDelta.
Negated(delta) == GridDelta(-delta.dx, -delta.dy, -delta.dz)

\* C23: for every direction d of a coordinate system (2D and 3D delta
\* tables), opposite(d) is a direction of the same coordinate system and its
\* delta is the component-wise negation of the delta of d.
C23_OppositeNegatesDelta ==
    (op = "opposite" /\ InDirections(grid.coord_system, arg)) =>
        /\ InDirections(grid.coord_system, ret)
        /\ ret < Len(deltas(grid.coord_system))
        /\ deltas(grid.coord_system)[ret + 1] = Negated(deltas(grid.coord_system)[arg + 1])

C23_Witness ==
    /\ op = "opposite"
    /\ grid.coord_system = "Cartesian2D"
    /\ arg = YBackward
    /\ ret = YForward
    /\ deltas(grid.coord_system)[ret + 1] = GridDelta(0, 1, 0)

\* The displacement of one unit along the axis of d, in the sense of d.
UnitDelta(d) ==
    GridDelta(IF AxisOf(d) = "x" THEN SignOf(d) ELSE 0,
              IF AxisOf(d) = "y" THEN SignOf(d) ELSE 0,
              IF AxisOf(d) = "z" THEN SignOf(d) ELSE 0)

\* The number of directions of a coordinate system: 4 in 2D, 6 in 3D.
DirectionsOf(cs) == IF cs = "Cartesian2D" THEN 4 ELSE 6

\* C24: the direction and delta tables are aligned by ordinal: directions()
\* has 4 entries for Cartesian2D and 6 for Cartesian3D, directions_count() is
\* that length, deltas() has the same length, directions()[i] as usize = i for
\* every i, and deltas()[d as usize] is the unit displacement of d along its
\* own axis for every d of directions().
C24_TablesAligned ==
    /\ op = "directions" =>
          /\ Len(ret) = DirectionsOf(grid.coord_system)
          /\ Len(ret) = directions_count(grid)
          /\ Len(ret) = Len(deltas(grid.coord_system))
          /\ \A i \in 1 .. Len(ret) :
                /\ usize_from(ret[i]) = i - 1
                /\ deltas(grid.coord_system)[usize_from(ret[i]) + 1] = UnitDelta(ret[i])
    /\ op = "directions_count" =>
          /\ ret = DirectionsOf(grid.coord_system)
          /\ ret = Len(directions(grid.coord_system))
    /\ op = "deltas" =>
          /\ Len(ret) = DirectionsOf(grid.coord_system)
          /\ \A i \in 1 .. Len(ret) : ret[i] = UnitDelta(directions(grid.coord_system)[i])

C24_Witness ==
    /\ op = "directions"
    /\ grid.coord_system = "Cartesian3D"
    /\ Len(ret) = 6
    /\ ret[6] = ZBackward
    /\ deltas(grid.coord_system)[usize_from(ret[6]) + 1] = GridDelta(0, 0, -1)

\* ------------------------------------- claims on neighbour resolution
NeighbourQueries ==
    {"get_next_pos_in_direction", "get_next_index_in_direction", "get_index_in_direction"}

\* r is None, or holds a position of the grid (get_next_pos_in_direction) or
\* the index of one (the two index queries).
NoneOrInGrid(g, name, r) ==
    \/ r.tag = "None"
    \/ /\ r.tag = "Some"
       /\ IF name = "get_next_pos_in_direction"
          THEN r.val \in Positions(g)
          ELSE \E pos \in Positions(g) : index_from_pos(g, pos) = r.val

\* C25: neighbour resolution never fails: for every grid (2D or 3D), every
\* in-grid position and every one of the six directions, ZForward and
\* ZBackward on a Cartesian2D grid included, get_next_pos_in_direction,
\* get_next_index_in_direction and get_index_in_direction return a
\* destination inside the grid or None.
C25_NeighbourResolutionNeverFails ==
    op \in NeighbourQueries => NoneOrInGrid(grid, op, ret)

\* ------------------------ SpecWrap: get_next_pos with deltas up to FarDelta
FarDeltas ==
    { GridDelta(dx, dy, dz) :
        dx \in -FarDelta .. FarDelta, dy \in -FarDelta .. FarDelta,
        dz \in -FarDelta .. FarDelta }

CallGetNextPosFar ==
    /\ Idle
    /\ \E pos \in Positions(grid), delta \in FarDeltas :
        /\ op' = "get_next_pos"
        /\ arg' = [pos |-> pos, delta |-> delta]
        /\ ret' = get_next_pos(grid, pos, delta)
        /\ GridFrame

InitWrap ==
    /\ InitGrid
    /\ grid.kind = "CartesianGrid"

NextWrap ==
    \/ CallGetNextPosFar
    \/ CallReturn

SpecWrap == InitWrap /\ [][NextWrap]_vars

\* The component of delta on every axis has a magnitude of at most the size
\* of the axis.
WithinOneSize(g, delta) ==
    \A a \in Axes :
        /\ AxisDelta(delta, a) <= AxisSize(g, a)
        /\ -AxisDelta(delta, a) <= AxisSize(g, a)

\* C26: for an in-grid position and a delta whose component on each axis has
\* a magnitude of at most the size of the axis, get_next_pos does not panic,
\* and the position it returns has, on every looping axis, the coordinate
\* (coordinate + delta) mod size (one addition or subtraction of size was
\* enough), and on every other axis the coordinate coordinate + delta.
C26_SingleWrapIsModulo ==
    (op = "get_next_pos" /\ WithinOneSize(grid, arg.delta)) =>
        /\ ret.tag \in {"None", "Some"}
        /\ ret.tag = "Some" =>
              \A a \in Axes :
                  /\ AxisCoord(ret.val, a) \in 0 .. AxisSize(grid, a) - 1
                  /\ AxisCoord(ret.val, a) =
                        IF AxisLooping(grid, a)
                        THEN MovedCoord(arg.pos, arg.delta, a) % AxisSize(grid, a)
                        ELSE MovedCoord(arg.pos, arg.delta, a)

\* A whole turn backward on X from x = 0 and a whole turn forward on Y from
\* the last y, both axes looping and of size 3 and 2.
C26_Witness ==
    /\ op = "get_next_pos"
    /\ grid.size_x = 3 /\ grid.size_y = 2
    /\ grid.looping_x /\ grid.looping_y
    /\ arg.pos = CartesianPosition(0, 1, 0)
    /\ arg.delta = GridDelta(-3, 2, 0)
    /\ ret = Some(CartesianPosition(0, 1, 0))

\* ------------------------------------ claims on flood_fill's horizontal runs
\* flood_fill with either kind of action.
InitRun == InitFill \/ InitLoop

SpecRun == InitRun /\ [][NextFill]_vars

\* The neighbour resolutions the current horizontal run has made so far: each
\* of them found a cell to fill (a resolution that finds none ends the run).
RunResolutions ==
    IF pc = "vertical" /\ local.vret = "run" THEN local.iter + 1 ELSE local.iter

\* A turn of the for loop that resolves no neighbour: the run ends, no cell
\* is filled and explore_vertical is not called.
EndsRun ==
    /\ data' = data
    /\ applied' = applied
    /\ pc' \in {"for", "while"}
    /\ local'.iter = 0 \/ local' = local

\* C27: every horizontal run of flood_fill (one per dequeued position and per
\* direction) makes at most size_x neighbour resolutions, whatever condition
\* and action do, on a grid looping on X and with an action that does not
\* disable condition too: the resolutions made never exceed size_x, and once
\* size_x were made the next turn ends the run without another.
C27_RunWithinSizeX ==
    /\ [](pc \in {"vertical", "for"} => RunResolutions <= grid.size_x)
    /\ [][(pc = "for" /\ RunResolutions >= grid.size_x) => EndsRun]_vars

\* On a grid looping on X whose action leaves condition true, a run went all
\* the way round the row and is stopped by the cap.
C27_Witness ==
    /\ pc = "for"
    /\ ~disables
    /\ grid.size_x = 3 /\ grid.looping_x
    /\ local.iter = grid.size_x
    /\ local.x_pos = local.pos

\* ------------------------------------------- claims on rotation_basis
\* The cross product of two deltas.
Cross(a, b) ==
    GridDelta(a.dy * b.dz - a.dz * b.dy,
              a.dz * b.dx - a.dx * b.dz,
              a.dx * b.dy - a.dy * b.dx)

\* The delta of a direction: its entry of the 3D table, which has all six.
DeltaOf(d) == CARTESIAN_3D_DELTAS[usize_from(d) + 1]

\* Entry i of the basis b, the index i taken modulo the length of b.
Cyclic(b, i) == b[(i % Len(b)) + 1]

\* C28: for every direction d, rotation_basis(d) lists exactly the four
\* directions other than d and opposite(d), each once, in right-handed cyclic
\* order around d: with b = rotation_basis(d) and indices modulo 4,
\* delta(b[i]) x delta(b[i+1]) = delta(d) and b[i+2] = opposite(b[i]).
C28_RotationBasisRightHanded ==
    op = "rotation_basis" =>
        /\ Len(ret) = 4
        /\ { ret[i] : i \in 1 .. Len(ret) } = Direction \ {arg, opposite(arg)}
        /\ \A i \in 0 .. 3 :
              /\ Cross(DeltaOf(Cyclic(ret, i)), DeltaOf(Cyclic(ret, i + 1))) = DeltaOf(arg)
              /\ Cyclic(ret, i + 2) = opposite(Cyclic(ret, i))

C28_Witness ==
    /\ op = "rotation_basis"
    /\ arg = YBackward
    /\ ret = <<XForward, ZForward, XBackward, ZBackward>>
    /\ Cross(DeltaOf(ret[4]), DeltaOf(ret[1])) = GridDelta(0, -1, 0)

\* ------------------------------------------- claims on reversing a move
\* C29: unit moves are reversible: for every grid, in-grid position p and
\* direction d of the grid's coordinate system, when
\* get_next_pos_in_direction(p, d) returns q, q is inside the grid and
\* get_next_pos_in_direction(q, opposite(d)) returns p, on looping and
\* non-looping axes and on axes of size 1.
C29_UnitMoveReversible ==
    ( /\ op = "get_next_pos_in_direction"
      /\ InDirections(grid.coord_system, arg.direction)
      /\ ret.tag = "Some" ) =>
        /\ ret.val \in Positions(grid)
        /\ get_next_pos_in_direction(grid, ret.val, opposite(arg.direction)) = Some(arg.pos)

\* A move that wraps on a looping axis of size 1 and comes back to itself.
C29_Witness ==
    /\ op = "get_next_pos_in_direction"
    /\ grid.size_y = 1 /\ grid.looping_y
    /\ grid.size_x = 3
    /\ arg.direction = YBackward
    /\ arg.pos = CartesianPosition(2, 0, 0)
    /\ ret = Some(CartesianPosition(2, 0, 0))

====
